---- MODULE Spec2Model ----
(***************************************************************************)
(* A model of the Rison serializer of src/src/ser.rs.                      *)
(*                                                                         *)
(* Text is a sequence of bytes (0..255), as the code handles it through    *)
(* as_bytes / push / push_str.  A value offered to the serializer is a     *)
(* record naming the serde method its Serialize impl calls (kind) and the  *)
(* arguments of that call.  The Serializer, SeqSerializer, MapSerializer   *)
(* and MapKeySerializer methods are operators on buffers; the actions of   *)
(* Spec drive one to_string call method by method, and the actions of      *)
(* SpecEsc apply escaped_str to one text.                                  *)
(***************************************************************************)
EXTENDS Integers, Sequences, FiniteSets, TLC

\* Longest text of the small alphabet handed to escaped_str under SpecEsc.
MaxLen == 3
\* Most pairs handed to one MapSerializer, most elements to one SeqSerializer.
MaxPairs == 3
MaxElems == 3

(***************************************************************************)
(* Character classification tables                                         *)
(***************************************************************************)
T == TRUE
F == FALSE

\* Lookup table: " '!:(),*@$" are true.  Index b + 1 holds the entry of byte b.
NOT_ID ==
  << F, F, F, F, F, F, F, F, F, F, F, F, F, F, F, F,
     F, F, F, F, F, F, F, F, F, F, F, F, F, F, F, F,
     T, T, F, F, T, F, F, T, T, T, T, F, T, F, F, F,
     F, F, F, F, F, F, F, F, F, F, T, F, F, F, F, F,
     T, F, F, F, F, F, F, F, F, F, F, F, F, F, F, F,
     F, F, F, F, F, F, F, F, F, F, F, F, F, F, F, F,
     F, F, F, F, F, F, F, F, F, F, F, F, F, F, F, F,
     F, F, F, F, F, F, F, F, F, F, F, F, F, F, F, F,
     F, F, F, F, F, F, F, F, F, F, F, F, F, F, F, F,
     F, F, F, F, F, F, F, F, F, F, F, F, F, F, F, F,
     F, F, F, F, F, F, F, F, F, F, F, F, F, F, F, F,
     F, F, F, F, F, F, F, F, F, F, F, F, F, F, F, F,
     F, F, F, F, F, F, F, F, F, F, F, F, F, F, F, F,
     F, F, F, F, F, F, F, F, F, F, F, F, F, F, F, F,
     F, F, F, F, F, F, F, F, F, F, F, F, F, F, F, F,
     F, F, F, F, F, F, F, F, F, F, F, F, F, F, F, F >>

\* Lookup table: "-0123456789 '!:(),*@$" are true.
NOT_ID_START ==
  << F, F, F, F, F, F, F, F, F, F, F, F, F, F, F, F,
     F, F, F, F, F, F, F, F, F, F, F, F, F, F, F, F,
     T, T, F, F, T, F, F, T, T, T, T, F, T, T, F, F,
     T, T, T, T, T, T, T, T, T, T, T, F, F, F, F, F,
     T, F, F, F, F, F, F, F, F, F, F, F, F, F, F, F,
     F, F, F, F, F, F, F, F, F, F, F, F, F, F, F, F,
     F, F, F, F, F, F, F, F, F, F, F, F, F, F, F, F,
     F, F, F, F, F, F, F, F, F, F, F, F, F, F, F, F,
     F, F, F, F, F, F, F, F, F, F, F, F, F, F, F, F,
     F, F, F, F, F, F, F, F, F, F, F, F, F, F, F, F,
     F, F, F, F, F, F, F, F, F, F, F, F, F, F, F, F,
     F, F, F, F, F, F, F, F, F, F, F, F, F, F, F, F,
     F, F, F, F, F, F, F, F, F, F, F, F, F, F, F, F,
     F, F, F, F, F, F, F, F, F, F, F, F, F, F, F, F,
     F, F, F, F, F, F, F, F, F, F, F, F, F, F, F, F,
     F, F, F, F, F, F, F, F, F, F, F, F, F, F, F, F >>

\* NOT_ID[b as usize] and NOT_ID_START[b as usize]
NotId(b) == NOT_ID[b + 1]

NotIdStart(b) == NOT_ID_START[b + 1]

(***************************************************************************)
(* Scalar formatting and text escaping                                     *)
(***************************************************************************)
\* itoa: the decimal digits of a non-negative integer, most significant first.
RECURSIVE Digits(_)
Digits(i) == IF i < 10 THEN << 48 + i >> ELSE Digits(i \div 10) \o << 48 + (i % 10) >>

\* s.push_str(buf.format(i)): minimal decimal digits, '-' only when negative.
int_to_string(s, i) == IF i < 0 THEN s \o << 45 >> \o Digits(-i) ELSE s \o Digits(i)

\* s.push_str(buf.format(f)) for the floats of the model: a float is given in
\* tenths (15 is 1.5), and ryu prints such a value as integer part, '.', one
\* digit ("1.5", "2.0", "-0.5").
float_to_string(s, f) ==
  LET a == IF f < 0 THEN -f ELSE f
  IN  (IF f < 0 THEN s \o << 45 >> ELSE s) \o Digits(a \div 10) \o << 46, 48 + (a % 10) >>

\* A variant of the loop that escapes the quote only and copies ! as it is.
RECURSIVE EscLoopQuoteOnly(_, _, _, _)
EscLoopQuoteOnly(s, value, i, start) ==
  IF i > Len(value) THEN [s |-> s, start |-> start]
  ELSE LET b == value[i]
       IN  IF b # 39 THEN EscLoopQuoteOnly(s, value, i + 1, start)
           ELSE LET s1 == IF start < i THEN s \o SubSeq(value, start, i - 1) ELSE s
                    s2 == (s1 \o << 33 >>) \o << b >>
                IN  EscLoopQuoteOnly(s2, value, i + 1, i + 1)

\* The for loop of escaped_str: i is the position of the byte looked at and
\* start the position after the last escaped byte (both 1-based here).
RECURSIVE EscLoop(_, _, _, _)
EscLoop(s, value, i, start) ==
  IF i > Len(value) THEN [s |-> s, start |-> start]
  ELSE LET b == value[i]
       IN  IF b # 33 /\ b # 39 THEN EscLoop(s, value, i + 1, start)
           ELSE LET s1 == IF start < i THEN s \o SubSeq(value, start, i - 1) ELSE s
                    s2 == (s1 \o << 33 >>) \o << b >>
                IN  EscLoop(s2, value, i + 1, i + 1)

\* Any byte of bytes[1..] flagged by NOT_ID.
AnyNotId(value) == \E j \in 2..Len(value) : NotId(value[j])

\* The tail of escaped_str after the loop: the rest of the text and the
\* closing quote.
CloseQuote(r, value) ==
  (IF r.start <= Len(value) THEN r.s \o SubSeq(value, r.start, Len(value)) ELSE r.s)
    \o << 39 >>

\* The quoted form: the opening quote, the loop, the tail.
Quoted(s, value) == CloseQuote(EscLoop(s \o << 39 >>, value, 1, 1), value)

\* A variant of escaped_str that tests every byte against NOT_ID only.
escaped_str_no_start_table(s, value) ==
  IF Len(value) = 0 THEN s \o << 39, 39 >>
  ELSE IF ~(\E j \in 1..Len(value) : NotId(value[j])) THEN s \o value
  ELSE Quoted(s, value)

escaped_str(s, value) ==
  IF Len(value) = 0 THEN s \o << 39, 39 >>
  ELSE IF ~NotIdStart(value[1]) /\ ~AnyNotId(value) THEN s \o value
  ELSE Quoted(s, value)

(***************************************************************************)
(* Values and results                                                      *)
(***************************************************************************)
\* A value as its Serialize impl presents it: kind is the Serializer method
\* called, n a number (bool as 0/1, integer, char as code point, float in
\* tenths), s a text (string, bytes, variant name, float class), keys the map
\* keys or struct field names, kids the children.
Val(kind, n, s, keys, kids) ==
  [kind |-> kind, n |-> n, s |-> s, keys |-> keys, kids |-> kids]

\* Result<()> together with the buffer as the call left it.
Ok(b) == [buf |-> b, err |-> "Ok"]

Err(b, e) == [buf |-> b, err |-> e]

IntKinds == {"i8", "i16", "i32", "i64", "i128", "u8", "u16", "u32", "u64", "u128"}

SeqKinds == {"seq", "tuple", "tuple_struct"}

\* v.classify() of a float: the class travels in s as one byte
\* ('N' NaN, 'I' infinite, anything else finite).
IsNanOrInfinite(v) == v.s = << 78 >> \/ v.s = << 73 >>

\* char::encode_utf8 for code points below U+0800.
encode_utf8(c) ==
  IF c < 128 THEN << c >> ELSE << 192 + (c \div 64), 128 + (c % 64) >>

(***************************************************************************)
(* Serializer: scalar methods                                              *)
(***************************************************************************)
serialize_bool(buf, v) == Ok(buf \o (IF v THEN << 33, 116 >> ELSE << 33, 102 >>))

\* serialize_i8 .. serialize_u128
serialize_int(buf, v) == Ok(int_to_string(buf, v))

serialize_unit(buf) == Ok(buf \o << 33, 110 >>)

\* serialize_f32 / serialize_f64
serialize_float(buf, v) ==
  IF IsNanOrInfinite(v) THEN serialize_unit(buf) ELSE Ok(float_to_string(buf, v.n))

serialize_str(buf, v) == Ok(escaped_str(buf, v))

serialize_char(buf, v) == serialize_str(buf, encode_utf8(v))

serialize_none(buf) == serialize_unit(buf)

serialize_unit_struct(buf) == serialize_unit(buf)

serialize_unit_variant(buf, variant) == serialize_str(buf, variant)

(***************************************************************************)
(* SeqSerializer                                                           *)
(***************************************************************************)
\* A variant of write_sep that writes the separator before every element.
write_sep_always(first, buf) == [first |-> FALSE, buf |-> buf \o << 44 >>]

write_sep(first, buf) ==
  IF first THEN [first |-> FALSE, buf |-> buf]
  ELSE [first |-> first, buf |-> buf \o << 44 >>]

\* Serializer::serialize_seq: the opening token; the SeqSerializer starts with
\* first = true.
serialize_seq(buf) == Ok(buf \o << 33, 40 >>)

\* The text pushed before serialize_seq / serialize_map by the variant forms.
VariantOpen(buf, variant) == (serialize_str(buf \o << 40 >>, variant).buf) \o << 58 >>

serialize_tuple_variant(buf, variant) == serialize_seq(VariantOpen(buf, variant))

\* A variant of SeqEndToken that closes every sequence alike.
SeqEndTokenSingle(mode) == << 41 >>

\* The token end() pushes: ) for SerializeSeq, SerializeTuple and
\* SerializeTupleStruct, )) for SerializeTupleVariant.
SeqEndToken(mode) == IF mode = "tuple_variant" THEN << 41, 41 >> ELSE << 41 >>

\* end() of a SeqSerializer
seq_end(buf, mode) == Ok(buf \o SeqEndToken(mode))

(***************************************************************************)
(* MapSerializer                                                           *)
(***************************************************************************)
None == << >>

Some(x) == << x >>

\* A variant of StrLess that puts a shorter text first.
StrLessShortFirst(a, b) ==
  IF Len(a) # Len(b) THEN Len(a) < Len(b)
  ELSE \E n \in 1..Len(a) :
         SubSeq(a, 1, n - 1) = SubSeq(b, 1, n - 1) /\ a[n] < b[n]

\* Ord of String: byte-lexicographic, a proper prefix first.
RECURSIVE StrLess(_, _)
StrLess(a, b) ==
  IF Len(b) = 0 THEN FALSE
  ELSE IF Len(a) = 0 THEN TRUE
  ELSE IF a[1] # b[1] THEN a[1] < b[1]
  ELSE StrLess(Tail(a), Tail(b))

\* A variant of BTreeInsert that keeps the pairs in insertion order.
BTreeInsertAtEnd(m, k, v) ==
  IF \E i \in 1..Len(m) : m[i][1] = k
  THEN [i \in 1..Len(m) |-> IF m[i][1] = k THEN << k, v >> ELSE m[i]]
  ELSE Append(m, << k, v >>)

\* A variant of BTreeInsert that keeps the value already stored under a key.
BTreeInsertKeepFirst(m, k, v) ==
  IF \E i \in 1..Len(m) : m[i][1] = k THEN m
  ELSE LET n == Cardinality({i \in 1..Len(m) : StrLess(m[i][1], k)})
       IN  SubSeq(m, 1, n) \o << << k, v >> >> \o SubSeq(m, n + 1, Len(m))

\* BTreeMap<String, String>::insert on the map held as its pairs in iteration
\* (ascending key) order: an equal key has its value replaced.
BTreeInsert(m, k, v) ==
  IF \E i \in 1..Len(m) : m[i][1] = k
  THEN [i \in 1..Len(m) |-> IF m[i][1] = k THEN << k, v >> ELSE m[i]]
  ELSE LET n == Cardinality({i \in 1..Len(m) : StrLess(m[i][1], k)})
       IN  SubSeq(m, 1, n) \o << << k, v >> >> \o SubSeq(m, n + 1, Len(m))

\* The for loop of write_object from pair i on.
RECURSIVE WritePairs(_, _, _)
WritePairs(buf, m, i) ==
  IF i > Len(m) THEN buf
  ELSE LET b1 == IF i # 1 THEN buf \o << 44 >> ELSE buf
           b2 == ((b1 \o m[i][1]) \o << 58 >>) \o m[i][2]
       IN  WritePairs(b2, m, i + 1)

\* A variant of write_object that replaces the buffer by the object.
write_object_fresh(buf, m, end) == WritePairs(<< 40 >>, m, 1) \o end

write_object(buf, m, end) == WritePairs(buf \o << 40 >>, m, 1) \o end

\* The token end() hands to write_object: ) for SerializeMap and
\* SerializeStruct, )) for SerializeStructVariant.
MapEndToken(mode) == IF mode = "struct_variant" THEN << 41, 41 >> ELSE << 41 >>

\* end() of a MapSerializer
map_end(buf, m, mode) == Ok(write_object(buf, m, MapEndToken(mode)))

serialize_struct_variant(buf, variant) == Ok(VariantOpen(buf, variant))

(***************************************************************************)
(* MapKeySerializer                                                        *)
(***************************************************************************)
\* A variant of key_serialize_bool that writes the boolean token as the key.
key_serialize_bool_accepts(buf, v) == Ok(buf \o (IF v THEN << 33, 116 >> ELSE << 33, 102 >>))

key_serialize_bool(buf, v) == Err(buf, "KeyMustBeAString")

\* serialize_i8 .. serialize_u128 of the key serializer
key_serialize_int(buf, v) == Ok(int_to_string(buf, v))

\* serialize_f32 / serialize_f64
key_serialize_float(buf, v) == Err(buf, "KeyMustBeAString")

key_serialize_str(buf, v) == Ok(escaped_str(buf, v))

key_serialize_char(buf, v) == key_serialize_str(buf, encode_utf8(v))

key_serialize_bytes(buf, v) == Err(buf, "KeyMustBeAString")

key_serialize_none(buf) == Err(buf, "KeyMustBeAString")

key_serialize_some(buf, value) == Err(buf, "KeyMustBeAString")

key_serialize_unit(buf) == Err(buf, "KeyMustBeAString")

key_serialize_unit_struct(buf) == Err(buf, "KeyMustBeAString")

key_serialize_unit_variant(buf, variant) == Ok(escaped_str(buf, variant))

key_serialize_newtype_variant(buf, variant, value) == Err(buf, "KeyMustBeAString")

\* serialize_seq, serialize_tuple, serialize_tuple_struct, serialize_tuple_variant,
\* serialize_map, serialize_struct and serialize_struct_variant
key_serialize_aggregate(buf) == Err(buf, "KeyMustBeAString")

\* key.serialize(&mut ser) on a MapKeySerializer: the method the key's
\* Serialize impl calls.  serialize_newtype_struct hands the wrapped value
\* to the same serializer.
RECURSIVE KeySerialize(_, _)
KeySerialize(buf, v) ==
  CASE v.kind = "bool" -> key_serialize_bool(buf, v.n = 1)
    [] v.kind \in IntKinds -> key_serialize_int(buf, v.n)
    [] v.kind \in {"f32", "f64"} -> key_serialize_float(buf, v)
    [] v.kind = "char" -> key_serialize_char(buf, v.n)
    [] v.kind = "str" -> key_serialize_str(buf, v.s)
    [] v.kind = "bytes" -> key_serialize_bytes(buf, v.s)
    [] v.kind = "none" -> key_serialize_none(buf)
    [] v.kind = "some" -> key_serialize_some(buf, v.kids[1])
    [] v.kind = "unit" -> key_serialize_unit(buf)
    [] v.kind = "unit_struct" -> key_serialize_unit_struct(buf)
    [] v.kind = "unit_variant" -> key_serialize_unit_variant(buf, v.s)
    [] v.kind = "newtype_struct" -> KeySerialize(buf, v.kids[1])
    [] v.kind = "newtype_variant" -> key_serialize_newtype_variant(buf, v.s, v.kids[1])
    [] v.kind \in SeqKinds \cup {"tuple_variant", "map", "struct", "struct_variant"}
         -> key_serialize_aggregate(buf)
    [] v.kind = "custom" -> Err(buf, "Message")

(***************************************************************************)
(* Serializer: the recursive traversal                                     *)
(***************************************************************************)
RECURSIVE Serialize(_, _)

\* The match on Result in to_string: the buffer is returned only on Ok.
Returned(r) == IF r.err = "Ok" THEN r ELSE Err(<< >>, r.err)

\* pub fn to_string: a fresh Serializer with an empty buffer.
to_string(value) == Returned(Serialize(<< >>, value))

\* value.serialize(&mut *self.ser) after write_sep left w.
ElementAfterSep(w, value) == [first |-> w.first] @@ Serialize(w.buf, value)

\* serialize_element of SerializeSeq / SerializeTuple and serialize_field of
\* SerializeTupleStruct / SerializeTupleVariant.
serialize_element(first, buf, value) == ElementAfterSep(write_sep(first, buf), value)

\* self.key = Some(ser.buf) unless the key serializer returned an error.
StashKey(m, key, r) ==
  IF r.err # "Ok" THEN [map |-> m, key |-> key, err |-> r.err]
  ELSE [map |-> m, key |-> Some(r.buf), err |-> "Ok"]

\* SerializeMap::serialize_key: a fresh MapKeySerializer with an empty buffer.
serialize_key(m, key, k) == StashKey(m, key, KeySerialize(<< >>, k))

\* A variant of InsertEncoded that inserts before it looks at the error.
InsertPartial(m, k, keyAfter, r) ==
  [map |-> BTreeInsert(m, k, r.buf), key |-> keyAfter, err |-> r.err]

\* self.map.insert(k, to_string(value)?): nothing is inserted when the value's
\* encoding r is an error; keyAfter is the pending key the call leaves.
InsertEncoded(m, k, keyAfter, r) ==
  IF r.err # "Ok" THEN [map |-> m, key |-> keyAfter, err |-> r.err]
  ELSE [map |-> BTreeInsert(m, k, r.buf), key |-> keyAfter, err |-> "Ok"]

\* A variant of serialize_value that inserts under the empty key when no key
\* is pending.
serialize_value_no_unwrap(m, key, value) ==
  InsertEncoded(m, IF key = None THEN << >> ELSE key[1], None, to_string(value))

\* SerializeMap::serialize_value: key.take().unwrap() runs first (a panic
\* when no key is pending), then to_string(value)?, then the insert.
serialize_value(m, key, value) ==
  IF key = None THEN [map |-> m, key |-> key, err |-> "panic"]
  ELSE InsertEncoded(m, key[1], None, to_string(value))

\* serialize_field of SerializeStruct and SerializeStructVariant
serialize_field(m, key, name, value) ==
  InsertEncoded(m, escaped_str(<< >>, name), key, to_string(value))

\* The ? on the wrapped value, then the closing token.
Close(r, token) == IF r.err # "Ok" THEN r ELSE Ok(r.buf \o token)

serialize_newtype_variant(buf, variant, value) ==
  Close(Serialize(VariantOpen(buf, variant), value), << 41 >>)

\* The element calls a sequence's Serialize impl makes, from child i on; an
\* error ends the traversal (the ? of the impl).
RECURSIVE SerElems(_, _, _, _)
ElemsAfter(r, kids, i) ==
  IF r.err # "Ok" THEN Err(r.buf, r.err) ELSE SerElems(r.first, r.buf, kids, i + 1)

SerElems(first, buf, kids, i) ==
  IF i > Len(kids) THEN Ok(buf)
  ELSE ElemsAfter(serialize_element(first, buf, kids[i]), kids, i)

\* The key/value calls a map's Serialize impl makes, from entry i on.
RECURSIVE SerEntries(_, _, _, _, _)
EntriesAfterValue(b, keys, kids, i) ==
  IF b.err # "Ok" THEN b ELSE SerEntries(b.map, b.key, keys, kids, i + 1)

EntriesAfterKey(a, keys, kids, i) ==
  IF a.err # "Ok" THEN a
  ELSE EntriesAfterValue(serialize_value(a.map, a.key, kids[i]), keys, kids, i)

SerEntries(m, key, keys, kids, i) ==
  IF i > Len(kids) THEN [map |-> m, key |-> key, err |-> "Ok"]
  ELSE EntriesAfterKey(serialize_key(m, key, keys[i]), keys, kids, i)

\* The field calls a struct's Serialize impl makes, from field i on.
RECURSIVE SerFields(_, _, _, _, _)
FieldsAfter(a, keys, kids, i) ==
  IF a.err # "Ok" THEN a ELSE SerFields(a.map, a.key, keys, kids, i + 1)

SerFields(m, key, keys, kids, i) ==
  IF i > Len(kids) THEN [map |-> m, key |-> key, err |-> "Ok"]
  ELSE FieldsAfter(serialize_field(m, key, keys[i].s, kids[i]), keys, kids, i)

\* end() of a SeqSerializer unless an element call returned an error.
EndSeq(r, kind) == IF r.err # "Ok" THEN r ELSE seq_end(r.buf, kind)

\* A sequence, tuple, tuple struct or tuple variant as a whole.
SerializeSeqValue(buf, v) ==
  EndSeq(SerElems(TRUE,
                  IF v.kind = "tuple_variant" THEN serialize_tuple_variant(buf, v.s).buf
                  ELSE serialize_seq(buf).buf,
                  v.kids, 1),
         v.kind)

\* end() of a MapSerializer on buffer b unless a call returned an error.
EndMap(b, r, kind) == IF r.err # "Ok" THEN Err(b, r.err) ELSE map_end(b, r.map, kind)

\* A map, struct or struct variant as a whole.
SerializeMapValue(buf, v) ==
  EndMap(IF v.kind = "struct_variant" THEN serialize_struct_variant(buf, v.s).buf ELSE buf,
         IF v.kind = "map" THEN SerEntries(<< >>, None, v.keys, v.kids, 1)
         ELSE SerFields(<< >>, None, v.keys, v.kids, 1),
         v.kind)

\* The bytes of a byte slice as u8 values.
ByteValues(bytes) == [i \in 1..Len(bytes) |-> Val("u8", bytes[i], << >>, << >>, << >>)]

serialize_bytes(buf, v) ==
  seq_end(SerElems(TRUE, serialize_seq(buf).buf, ByteValues(v), 1).buf, "seq")

\* value.serialize(&mut ser) on a Serializer: the method the value's
\* Serialize impl calls.  A "custom" value is one whose impl returns
\* Err(Error::custom(..)) without calling the serializer.
Serialize(buf, v) ==
  CASE v.kind = "bool" -> serialize_bool(buf, v.n = 1)
    [] v.kind \in IntKinds -> serialize_int(buf, v.n)
    [] v.kind \in {"f32", "f64"} -> serialize_float(buf, v)
    [] v.kind = "char" -> serialize_char(buf, v.n)
    [] v.kind = "str" -> serialize_str(buf, v.s)
    [] v.kind = "bytes" -> serialize_bytes(buf, v.s)
    [] v.kind = "none" -> serialize_none(buf)
    [] v.kind = "some" -> Serialize(buf, v.kids[1])
    [] v.kind = "unit" -> serialize_unit(buf)
    [] v.kind = "unit_struct" -> serialize_unit_struct(buf)
    [] v.kind = "unit_variant" -> serialize_unit_variant(buf, v.s)
    [] v.kind = "newtype_struct" -> Serialize(buf, v.kids[1])
    [] v.kind = "newtype_variant" -> serialize_newtype_variant(buf, v.s, v.kids[1])
    [] v.kind \in SeqKinds \cup {"tuple_variant"} -> SerializeSeqValue(buf, v)
    [] v.kind \in {"map", "struct", "struct_variant"} -> SerializeMapValue(buf, v)
    [] v.kind = "custom" -> Err(buf, "Message")

(***************************************************************************)
(* Inputs                                                                  *)
(***************************************************************************)
Leaf(kind, n, s) == Val(kind, n, s, << >>, << >>)

Wrap(kind, s, v) == Val(kind, 0, s, << >>, << v >>)

Str(s) == Leaf("str", 0, s)

I32(n) == Leaf("i32", n, << >>)

Custom == Leaf("custom", 0, << >>)

\* The argument recorded for a call that takes no value.
NoArg == Leaf("", 0, << >>)

\* The texts "a", "b", "a b", "it's!", "V", "hello", "x:y", "10" and "-a".
TxtA == << 97 >>

TxtB == << 98 >>

TxtASpB == << 97, 32, 98 >>

TxtIts == << 105, 116, 39, 115, 33 >>

TxtV == << 86 >>

TxtHello == << 104, 101, 108, 108, 111 >>

TxtColon == << 120, 58, 121 >>

Txt10 == << 49, 48 >>

TxtDashA == << 45, 97 >>

SeqOk == Val("seq", 0, << >>, << >>, << I32(1), Leaf("u8", 2, << >>) >>)

SeqFailing == Val("seq", 0, << >>, << >>, << I32(1), Custom >>)

MapBoolKey == Val("map", 0, << >>, << Leaf("bool", 1, << >>) >>, << I32(1) >>)

MapIntKeys == Val("map", 0, << >>, << I32(2), I32(10) >>, << I32(1), I32(2) >>)

MapNestedFailing == Val("map", 0, << >>, << Str(TxtA) >>, << SeqFailing >>)

StructBA == Val("struct", 0, << >>, << Str(TxtB), Str(TxtA) >>, << I32(2), I32(1) >>)

TupleVariantV == Val("tuple_variant", 0, TxtV, << >>, << I32(1), Str(TxtA) >>)

StructVariantV ==
  Val("struct_variant", 0, TxtV, << Str(TxtB), Str(TxtA) >>, << I32(2), Custom >>)

NewtypeVariantFailing == Wrap("newtype_variant", TxtV, Custom)

\* Values offered as map values and struct fields.
ValueInputs == { I32(1), Str(TxtASpB), SeqOk, Custom, SeqFailing, MapBoolKey }

\* Values offered as sequence elements and as wrapped values.
Children ==
  ValueInputs \cup
  { Leaf("bool", 1, << >>), Leaf("none", 0, << >>), MapIntKeys, MapNestedFailing,
    StructBA, TupleVariantV, StructVariantV, NewtypeVariantFailing,
    Wrap("newtype_variant", TxtASpB, SeqOk) }

\* The integer each width is offered with.
IntOf(kind) ==
  CASE kind \in {"i8"} -> -7
    [] kind \in {"i16", "i64", "u16", "u64", "u128"} -> 10
    [] kind \in {"i32", "i128", "u8", "u32"} -> 2

IntInputs == { Leaf(k, IntOf(k), << >>) : k \in IntKinds } \cup { I32(0), I32(-120) }

\* Floats: NaN ('N'), infinite ('I') and the finite 1.5, -0.5 and 2.0.
FloatInputs ==
  { Leaf(k, 15, c) : k \in {"f32", "f64"}, c \in {<< 78 >>, << 73 >>, << >>} }
  \cup { Leaf("f64", -5, << >>), Leaf("f64", 20, << >>) }

\* The chars a, quote, 1 and U+00E9.
CharInputs == { 97, 39, 49, 233 }

StrInputs == { << >>, TxtA, TxtB, TxtASpB, TxtIts, TxtColon, Txt10, TxtDashA }

BytesInputs == { << >>, << 1, 2 >>, << 255 >> }

\* Variant names and struct field names.
Names == { TxtV, TxtASpB }

FieldNames == { TxtA, TxtB, TxtASpB, Txt10 }

\* Keys a map's Serialize impl offers that the key serializer writes.
ScalarKeyInputs ==
  { Leaf(k, IntOf(k), << >>) : k \in IntKinds \ {"i8"} } \cup
  { Leaf("char", 97, << >>), Str(TxtA), Str(TxtASpB), Leaf("unit_variant", 0, TxtB),
    Wrap("newtype_struct", << >>, Str(TxtB)),
    Wrap("newtype_struct", << >>, Wrap("newtype_struct", << >>, I32(2))) }

\* Keys of every other shape.
OtherKeyInputs ==
  { Leaf("bool", 1, << >>), Leaf("f32", 15, << >>), Leaf("f64", 15, << >>),
    Leaf("bytes", 0, << 1 >>), Leaf("none", 0, << >>), Wrap("some", << >>, Str(TxtA)),
    Leaf("unit", 0, << >>), Leaf("unit_struct", 0, << >>),
    Wrap("newtype_struct", << >>, Leaf("bool", 1, << >>)),
    Wrap("newtype_variant", TxtV, Str(TxtA)),
    Val("seq", 0, << >>, << >>, << Str(TxtA) >>),
    Val("tuple", 0, << >>, << >>, << Str(TxtA) >>),
    Val("tuple_struct", 0, << >>, << >>, << Str(TxtA) >>),
    Val("tuple_variant", 0, TxtV, << >>, << Str(TxtA) >>),
    Val("map", 0, << >>, << >>, << >>),
    Val("struct", 0, << >>, << >>, << >>),
    Val("struct_variant", 0, TxtV, << >>, << >>),
    Custom }

KeyInputs == ScalarKeyInputs \cup OtherKeyInputs

\* The sequences over S of length at most n.
BoundedSeq(S, n) == UNION { [1..k -> S] : k \in 0..n }

\* The bytes of space ! quote ( - 1 : a
Alphabet == { 32, 33, 39, 40, 45, 49, 58, 97 }

\* Texts handed to escaped_str: every one-byte ASCII text, a followed by
\* every ASCII byte, U+00E9 alone and after a, it's!, hello, and the texts
\* over Alphabet.
Texts ==
  { << b >> : b \in 0..127 } \cup { << 97, b >> : b \in 0..127 } \cup
  { << 195, 169 >>, << 97, 195, 169 >>, TxtIts, TxtHello } \cup BoundedSeq(Alphabet, MaxLen)

(***************************************************************************)
(* State                                                                   *)
(***************************************************************************)
VARIABLES
  pc,       \* "start", "seq" (a SeqSerializer is live), "map" (a MapSerializer
            \* is live), "done" (Ok), "err" (Err) or "panic"
  mode,     \* the trait the live writer is used through
  buf,      \* Serializer.buf
  first,    \* SeqSerializer.first
  map,      \* MapSerializer.map, as its pairs in iteration order
  key,      \* MapSerializer.key
  err,      \* the Error returned
  op,       \* the method called last
  arg,      \* the value it was called with
  variant,  \* the variant name the writer was opened with
  elems,    \* to_string of each element handed to the SeqSerializer so far
  fed,      \* the (key text, to_string of value) pairs handed to the
            \* MapSerializer so far, in call order
  value,    \* the text handed to escaped_str
  into,     \* the string escaped_str is called on, before the call
  s,        \* that string
  escPc     \* "idle", "call" (before escaped_str) or "ret" (after)

vars ==
  << pc, mode, buf, first, map, key, err, op, arg, variant, elems, fed,
     value, into, s, escPc >>

escVars == << value, into, s, escPc >>

writerVars == << first, map, key, elems, fed >>

Init ==
  /\ pc = "start" /\ mode = "" /\ buf = << >>
  /\ first = TRUE /\ map = << >> /\ key = None
  /\ err = "Ok" /\ op = "" /\ arg = NoArg /\ variant = << >>
  /\ elems = << >> /\ fed = << >>
  /\ value = << >> /\ into = << >> /\ s = << >> /\ escPc = "idle"

(***************************************************************************)
(* Actions: one to_string call, method by method                           *)
(***************************************************************************)
\* A method that serializes a whole value on the fresh Serializer: to_string
\* returns after it.
Finish(r, method, a) ==
  /\ buf' = r.buf
  /\ err' = r.err
  /\ pc' = IF r.err = "Ok" THEN "done" ELSE "err"
  /\ op' = method
  /\ arg' = a
  /\ UNCHANGED << mode, variant, writerVars, escVars >>

SerializeBool ==
  /\ pc = "start"
  /\ \E v \in BOOLEAN :
       Finish(serialize_bool(buf, v), "serialize_bool",
              Leaf("bool", IF v THEN 1 ELSE 0, << >>))

SerializeInt ==
  /\ pc = "start"
  /\ \E v \in IntInputs : Finish(serialize_int(buf, v.n), "serialize_int", v)

SerializeFloat ==
  /\ pc = "start"
  /\ \E v \in FloatInputs : Finish(serialize_float(buf, v), "serialize_float", v)

SerializeChar ==
  /\ pc = "start"
  /\ \E c \in CharInputs :
       Finish(serialize_char(buf, c), "serialize_char", Leaf("char", c, << >>))

SerializeStr ==
  /\ pc = "start"
  /\ \E v \in StrInputs : Finish(serialize_str(buf, v), "serialize_str", Str(v))

SerializeBytes ==
  /\ pc = "start"
  /\ \E v \in BytesInputs :
       Finish(serialize_bytes(buf, v), "serialize_bytes", Leaf("bytes", 0, v))

SerializeNone ==
  /\ pc = "start"
  /\ Finish(serialize_none(buf), "serialize_none", Leaf("none", 0, << >>))

SerializeSome ==
  /\ pc = "start"
  /\ \E v \in Children :
       Finish(Serialize(buf, v), "serialize_some", Wrap("some", << >>, v))

SerializeUnit ==
  /\ pc = "start"
  /\ Finish(serialize_unit(buf), "serialize_unit", Leaf("unit", 0, << >>))

SerializeUnitStruct ==
  /\ pc = "start"
  /\ Finish(serialize_unit_struct(buf), "serialize_unit_struct",
            Leaf("unit_struct", 0, << >>))

SerializeUnitVariant ==
  /\ pc = "start"
  /\ \E name \in Names \cup StrInputs :
       Finish(serialize_unit_variant(buf, name), "serialize_unit_variant",
              Leaf("unit_variant", 0, name))

SerializeNewtypeStruct ==
  /\ pc = "start"
  /\ \E v \in Children :
       Finish(Serialize(buf, v), "serialize_newtype_struct",
              Wrap("newtype_struct", << >>, v))

SerializeNewtypeVariant ==
  /\ pc = "start"
  /\ \E name \in Names, v \in Children :
       Finish(serialize_newtype_variant(buf, name, v), "serialize_newtype_variant",
              Wrap("newtype_variant", name, v))

\* A method that returns a writer.
Open(b, state, kind, name) ==
  /\ buf' = b
  /\ pc' = state
  /\ mode' = kind
  /\ variant' = name
  /\ first' = TRUE /\ map' = << >> /\ key' = None
  /\ op' = "serialize_" \o kind
  /\ arg' = NoArg
  /\ UNCHANGED << err, elems, fed, escVars >>

\* serialize_seq, serialize_tuple, serialize_tuple_struct
SerializeSeq ==
  /\ pc = "start"
  /\ \E kind \in SeqKinds : Open(serialize_seq(buf).buf, "seq", kind, << >>)

SerializeTupleVariant ==
  /\ pc = "start"
  /\ \E name \in Names :
       Open(serialize_tuple_variant(buf, name).buf, "seq", "tuple_variant", name)

\* serialize_map, serialize_struct
SerializeMap ==
  /\ pc = "start"
  /\ \E kind \in {"map", "struct"} : Open(buf, "map", kind, << >>)

SerializeStructVariant ==
  /\ pc = "start"
  /\ \E name \in Names :
       Open(serialize_struct_variant(buf, name).buf, "map", "struct_variant", name)

\* What a SeqSerializer element call leaves: the writer goes on, or the
\* error is returned from to_string.
AfterElement(r) ==
  /\ first' = r.first
  /\ buf' = r.buf
  /\ err' = r.err
  /\ pc' = IF r.err = "Ok" THEN "seq" ELSE "err"

\* SeqSerializer: serialize_element / serialize_field
SerializeElement ==
  /\ pc = "seq"
  /\ Len(elems) < MaxElems
  /\ \E v \in Children :
       /\ AfterElement(serialize_element(first, buf, v))
       /\ elems' = IF err' = "Ok" THEN Append(elems, to_string(v).buf) ELSE elems
       /\ op' = "serialize_element"
       /\ arg' = v
  /\ UNCHANGED << mode, variant, map, key, fed, escVars >>

\* SeqSerializer: end
SeqEnd ==
  /\ pc = "seq"
  /\ buf' = seq_end(buf, mode).buf
  /\ pc' = "done"
  /\ op' = "end"
  /\ arg' = NoArg
  /\ UNCHANGED << mode, variant, err, writerVars, escVars >>

\* What a MapSerializer method leaves: the writer goes on, the error is
\* returned from to_string, or the thread panics.
AfterMapCall(r) ==
  /\ map' = r.map
  /\ key' = r.key
  /\ err' = r.err
  /\ pc' = CASE r.err = "Ok" -> "map" [] r.err = "panic" -> "panic" [] OTHER -> "err"

SerializeKey ==
  /\ pc = "map" /\ mode = "map"
  /\ Len(fed) < MaxPairs
  /\ \E k \in KeyInputs :
       /\ AfterMapCall(serialize_key(map, key, k))
       /\ op' = "serialize_key"
       /\ arg' = k
  /\ UNCHANGED << mode, variant, buf, first, elems, fed, escVars >>

SerializeValue ==
  /\ pc = "map" /\ mode = "map"
  /\ Len(fed) < MaxPairs
  /\ \E v \in ValueInputs :
       /\ AfterMapCall(serialize_value(map, key, v))
       /\ fed' = IF err' = "Ok" THEN Append(fed, << key[1], to_string(v).buf >>) ELSE fed
       /\ op' = "serialize_value"
       /\ arg' = v
  /\ UNCHANGED << mode, variant, buf, first, elems, escVars >>

\* serialize_field of SerializeStruct and SerializeStructVariant
SerializeField ==
  /\ pc = "map" /\ mode \in {"struct", "struct_variant"}
  /\ Len(fed) < MaxPairs
  /\ \E name \in FieldNames, v \in ValueInputs :
       /\ AfterMapCall(serialize_field(map, key, name, v))
       /\ fed' = IF err' = "Ok"
                 THEN Append(fed, << escaped_str(<< >>, name), to_string(v).buf >>)
                 ELSE fed
       /\ op' = "serialize_field"
       /\ arg' = v
  /\ UNCHANGED << mode, variant, buf, first, elems, escVars >>

\* MapSerializer: end
MapEnd ==
  /\ pc = "map"
  /\ buf' = map_end(buf, map, mode).buf
  /\ pc' = "done"
  /\ op' = "end"
  /\ arg' = NoArg
  /\ UNCHANGED << mode, variant, err, writerVars, escVars >>

Next ==
  \/ SerializeBool \/ SerializeInt \/ SerializeFloat \/ SerializeChar
  \/ SerializeStr \/ SerializeBytes \/ SerializeNone \/ SerializeSome
  \/ SerializeUnit \/ SerializeUnitStruct \/ SerializeUnitVariant
  \/ SerializeNewtypeStruct \/ SerializeNewtypeVariant
  \/ SerializeSeq \/ SerializeTupleVariant \/ SerializeMap \/ SerializeStructVariant
  \/ SerializeElement \/ SeqEnd
  \/ SerializeKey \/ SerializeValue \/ SerializeField \/ MapEnd

Spec == Init /\ [][Next]_vars

(***************************************************************************)
(* escaped_str on its own                                                  *)
(***************************************************************************)
InitEsc ==
  /\ pc = "start" /\ mode = "" /\ buf = << >>
  /\ first = TRUE /\ map = << >> /\ key = None
  /\ err = "Ok" /\ op = "" /\ arg = NoArg /\ variant = << >>
  /\ elems = << >> /\ fed = << >>
  /\ value \in Texts
  /\ into \in { << >>, << 40, 97, 58 >> }
  /\ s = into
  /\ escPc = "call"

EscapedStr ==
  /\ escPc = "call"
  /\ s' = escaped_str(s, value)
  /\ escPc' = "ret"
  /\ UNCHANGED << pc, mode, buf, first, map, key, err, op, arg, variant, elems, fed,
                  value, into >>

NextEsc == EscapedStr

SpecEsc == InitEsc /\ [][NextEsc]_vars

(***************************************************************************)
(* Properties                                                              *)
(***************************************************************************)
IsPrefix(a, b) == Len(a) <= Len(b) /\ SubSeq(b, 1, Len(a)) = a

Range(f) == { f[i] : i \in DOMAIN f }

MapModes == {"map", "struct", "struct_variant"}

\* Byte-lexicographic order stated by the first position where two texts
\* differ: a is below b when they agree on n bytes and then a ends or has
\* the smaller byte.
ByteLexLess(a, b) ==
  \E n \in 0..Len(a) :
    /\ n <= Len(b)
    /\ SubSeq(a, 1, n) = SubSeq(b, 1, n)
    /\ \/ n = Len(a) /\ n < Len(b)
       \/ n < Len(a) /\ n < Len(b) /\ a[n + 1] < b[n + 1]

\* The key -> value content of a sequence of pairs: each key with the value
\* of its last pair.
Content(pairs) ==
  { pairs[i] : i \in { j \in DOMAIN pairs :
                         \A l \in DOMAIN pairs : l > j => pairs[l][1] # pairs[j][1] } }

\* The pairs of a content in strictly ascending key order.
Ascending(content) ==
  CHOOSE q \in [1..Cardinality(content) -> content] :
    \A i, j \in DOMAIN q : i < j => ByteLexLess(q[i][1], q[j][1])

\* key:value of each pair, joined by commas.
RECURSIVE JoinPairs(_)
JoinPairs(q) ==
  IF Len(q) = 0 THEN << >>
  ELSE IF Len(q) = 1 THEN q[1][1] \o << 58 >> \o q[1][2]
  ELSE q[1][1] \o << 58 >> \o q[1][2] \o << 44 >> \o JoinPairs(Tail(q))

\* The texts joined by commas.
RECURSIVE JoinElems(_)
JoinElems(q) ==
  IF Len(q) = 0 THEN << >>
  ELSE IF Len(q) = 1 THEN q[1]
  ELSE q[1] \o << 44 >> \o JoinElems(Tail(q))

RECURSIVE SumLen(_)
SumLen(q) == IF Len(q) = 0 THEN 0 ELSE Len(q[1]) + SumLen(Tail(q))

\* What the buffer held when the writer was opened: the variant framing of a
\* tuple or struct variant, nothing otherwise.
Framing ==
  IF mode \in {"tuple_variant", "struct_variant"}
  THEN << 40 >> \o escaped_str(<< >>, variant) \o << 58 >>
  ELSE << >>

ClosingToken == IF mode \in {"tuple_variant", "struct_variant"} THEN << 41, 41 >> ELSE << 41 >>

\* The pairs handed to a fresh MapSerializer in the order p of fed, then end().
RECURSIVE Replay(_, _)
Replay(m, pairs) ==
  IF Len(pairs) = 0 THEN m
  ELSE Replay(BTreeInsert(m, pairs[1][1], pairs[1][2]), Tail(pairs))

Orders(n) == { p \in [1..n -> 1..n] : \A i, j \in 1..n : p[i] = p[j] => i = j }

Permuted(pairs, p) == [i \in DOMAIN pairs |-> pairs[p[i]]]

\* C1: when a map, struct or struct variant has been written, handing the
\* same pairs to the MapSerializer in any other order that leaves the same
\* key -> value content gives byte for byte the output end() produced.
C1_OrderIndependent ==
  (pc = "done" /\ mode \in MapModes) =>
    \A p \in Orders(Len(fed)) :
      Content(Permuted(fed, p)) = Content(fed) =>
        write_object(Framing, Replay(<< >>, Permuted(fed, p)), ClosingToken) = buf

\* Two pairs were handed over in descending key order and the map was ended.
C1_Witness ==
  /\ pc = "done" /\ mode = "map"
  /\ Len(fed) = 2
  /\ ByteLexLess(fed[2][1], fed[1][1])

\* The forbidden-anywhere bytes: space ' ! : ( ) , * @ $
ForbiddenAnywhere == { 32, 39, 33, 58, 40, 41, 44, 42, 64, 36 }

\* The forbidden-as-start bytes: those, the digits and '-'.
ForbiddenStart == ForbiddenAnywhere \cup (48..57) \cup { 45 }

IsBare(t) ==
  /\ Len(t) > 0
  /\ t[1] \notin ForbiddenStart
  /\ \A j \in 2..Len(t) : t[j] \notin ForbiddenAnywhere

\* Each ! and each ' of a text prefixed by one !.
RECURSIVE EscapeEach(_)
EscapeEach(t) ==
  IF Len(t) = 0 THEN << >>
  ELSE (IF t[1] \in {33, 39} THEN << 33, t[1] >> ELSE << t[1] >>) \o EscapeEach(Tail(t))

\* C2: escaped_str appends the text unchanged exactly when the text is
\* non-empty, its first byte is outside the forbidden-as-start set and its
\* other bytes are outside the forbidden-anywhere set; it appends '' for the
\* empty text, and otherwise the text between quotes with each ! and '
\* prefixed by one !.
C2_BareOrQuoted ==
  escPc = "ret" =>
    /\ (s = into \o value) <=> IsBare(value)
    /\ value = << >> => s = into \o << 39, 39 >>
    /\ (value # << >> /\ ~IsBare(value)) =>
         s = into \o << 39 >> \o EscapeEach(value) \o << 39 >>

\* escaped_str has turned it's! into 'it!'s!!'.
C2_Witness ==
  /\ escPc = "ret"
  /\ value = TxtIts
  /\ s = into \o << 39, 105, 116, 33, 39, 115, 33, 33, 39 >>

\* C5: end() of a MapSerializer appends ( then the buffered pairs, one per
\* key with the value handed over last, as key:value joined by commas in
\* strictly ascending byte-lexicographic order of the key text, then the
\* closing token; with no pairs it appends ( and the closing token.
C5_ObjectLayout ==
  (pc = "done" /\ mode \in MapModes) =>
    buf = Framing \o << 40 >> \o JoinPairs(Ascending(Content(fed))) \o ClosingToken

\* The keys 2 and 10 were handed over in that order and 10 was written first.
C5_Witness ==
  /\ pc = "done" /\ mode = "map"
  /\ Len(fed) = 2
  /\ fed[1][1] = << 50 >> /\ fed[2][1] = << 49, 48 >>
  /\ SubSeq(buf, 1, 4) = << 40, 49, 48, 58 >>

\* C6: a sequence, tuple or tuple struct of n elements is written as !( then
\* the element encodings in call order with n-1 commas between them then );
\* SeqSerializer.first is true exactly while no element has been handed over.
C6_SequenceFraming ==
  /\ pc = "seq" => (first <=> Len(elems) = 0)
  /\ (pc = "done" /\ mode \in SeqKinds) =>
       /\ buf = << 33, 40 >> \o JoinElems(elems) \o << 41 >>
       /\ Len(buf) = 3 + SumLen(elems) + (IF Len(elems) = 0 THEN 0 ELSE Len(elems) - 1)

\* The tuple (1, [1, 2]) was written as !(1,!(1,2)).
C6_Witness ==
  /\ pc = "done" /\ mode = "tuple"
  /\ elems = << << 49 >>, << 33, 40, 49, 44, 50, 41 >> >>
  /\ buf = << 33, 40, 49, 44, 33, 40, 49, 44, 50, 41, 41 >>

\* C10: pairs with the same encoded key raise no error; the MapSerializer
\* holds one pair per distinct key text, with the value handed over last, and
\* end() writes exactly those pairs.
C10_DuplicateKeys ==
  /\ (pc \in {"map", "done"} /\ mode \in MapModes) =>
       /\ Len(map) = Cardinality({ fed[i][1] : i \in DOMAIN fed })
       /\ Range(map) = Content(fed)
  /\ (pc = "done" /\ mode \in MapModes) =>
       buf = Framing \o << 40 >> \o JoinPairs(map) \o ClosingToken
  /\ (op \in {"serialize_value", "serialize_field"} /\ err \notin {"Ok", "panic"}) =>
       to_string(arg).err = err

\* The same key was handed over twice with different values and one pair was
\* written.
C10_Witness ==
  /\ pc = "done" /\ mode = "map"
  /\ Len(fed) = 2
  /\ fed[1][1] = fed[2][1] /\ fed[1][2] # fed[2][2]
  /\ Len(map) = 1
  /\ buf = << 40 >> \o fed[2][1] \o << 58 >> \o fed[2][2] \o << 41 >>

\* The shapes the key serializer writes.
ScalarKinds == IntKinds \cup {"char", "str", "unit_variant"}

\* A key under its newtype structs.
RECURSIVE Unwrapped(_)
Unwrapped(v) == IF v.kind = "newtype_struct" THEN Unwrapped(v.kids[1]) ELSE v

\* C3 as claimed: a key handed to serialize_key is accepted when its shape is
\* an integer, a char, a string or a unit variant, and every other shape,
\* newtype structs among them, fails with KeyMustBeAString.
C3_Claimed ==
  (op = "serialize_key" /\ Unwrapped(arg).kind # "custom") =>
    IF arg.kind \in ScalarKinds THEN err = "Ok" ELSE err = "KeyMustBeAString"

\* C3: a key handed to serialize_key is accepted, and becomes the pending
\* key, exactly when its shape under any newtype structs is an integer, a
\* char, a string or a unit variant; a key of every other shape makes
\* serialize_key and the whole to_string fail with KeyMustBeAString, and the
\* pending key stays absent.
C3_KeyRestriction ==
  (op = "serialize_key" /\ Unwrapped(arg).kind # "custom") =>
    IF Unwrapped(arg).kind \in ScalarKinds
    THEN /\ err = "Ok" /\ pc = "map"
         /\ key # None
         /\ Unwrapped(arg).kind \in IntKinds => key[1] = int_to_string(<< >>, Unwrapped(arg).n)
         /\ Unwrapped(arg).kind \in {"str", "unit_variant"} =>
              key[1] = escaped_str(<< >>, Unwrapped(arg).s)
    ELSE /\ err = "KeyMustBeAString" /\ pc = "err"

\* A newtype struct around the string b was accepted as the key b.
C3_Witness ==
  /\ op = "serialize_key"
  /\ arg = Wrap("newtype_struct", << >>, Str(TxtB))
  /\ err = "Ok" /\ pc = "map"
  /\ key = Some(TxtB)

\* A step that calls one of the methods handing a child to a composite.
ChildCall ==
  op' \in {"serialize_element", "serialize_value", "serialize_field",
           "serialize_newtype_variant"}

\* C4 as claimed: when the encoding of a child of a composite fails, the
\* parent's buffer is as it was before the child was visited.
C4_Claimed == [][(ChildCall /\ pc' = "err") => buf' = buf]_vars

\* C4: a map value or struct field is encoded on its own: the call leaves the
\* parent's buffer as it was, and either the complete pair is in the
\* MapSerializer or, when the child's encoding fails, the pairs are as they
\* were and the error is returned.  A sequence element or a newtype variant
\* payload is written into the parent's buffer: when it fails, what was
\* written before the failure stays in the buffer and the error is returned.
C4_AllOrNothing ==
  /\ [][op' \in {"serialize_value", "serialize_field"} =>
          /\ buf' = buf
          /\ IF to_string(arg').err = "Ok" /\ pc' # "panic"
             THEN /\ pc' = "map"
                  /\ Len(fed') = Len(fed) + 1
                  /\ fed'[Len(fed')][2] = to_string(arg').buf
                  /\ fed'[Len(fed')] \in Range(map')
                  /\ Len(map') <= Len(map) + 1
             ELSE /\ map' = map
                  /\ pc' \in {"err", "panic"}
                  /\ pc' = "err" => err' = to_string(arg').err]_vars
  /\ [][(op' \in {"serialize_element", "serialize_newtype_variant"}
          /\ to_string(IF op' = "serialize_element" THEN arg' ELSE arg'.kids[1]).err # "Ok") =>
          /\ pc' = "err"
          /\ err' = to_string(IF op' = "serialize_element" THEN arg' ELSE arg'.kids[1]).err
          /\ IsPrefix(buf, buf')]_vars

\* A map value that fails after its first element left the one pair handed
\* over before it and the buffer untouched.
C4_Witness ==
  /\ pc = "err" /\ op = "serialize_value"
  /\ arg = SeqFailing
  /\ Len(fed) = 1 /\ Len(map) = 1
  /\ buf = << >>

\* C7: a newtype variant is written as ( name : payload ), a tuple variant as
\* ( name : the bare sequence ) and a struct variant as ( name : the bare
\* object ), the name through escaped_str; tuple and struct variants so end
\* with two closing parentheses.
C7_VariantFraming ==
  /\ (pc = "done" /\ op = "serialize_newtype_variant") =>
       buf = << 40 >> \o escaped_str(<< >>, arg.s) \o << 58 >>
               \o to_string(arg.kids[1]).buf \o << 41 >>
  /\ (pc = "done" /\ mode = "tuple_variant") =>
       buf = << 40 >> \o escaped_str(<< >>, variant) \o << 58 >>
               \o (<< 33, 40 >> \o JoinElems(elems) \o << 41 >>) \o << 41 >>
  /\ (pc = "done" /\ mode = "struct_variant") =>
       buf = << 40 >> \o escaped_str(<< >>, variant) \o << 58 >>
               \o (<< 40 >> \o JoinPairs(Ascending(Content(fed))) \o << 41 >>) \o << 41 >>

\* The tuple variant named a b with the elements 1 and 1 was written as
\* ('a b':!(1,1)).
C7_Witness ==
  /\ pc = "done" /\ mode = "tuple_variant"
  /\ variant = TxtASpB
  /\ buf = << 40, 39, 97, 32, 98, 39, 58, 33, 40, 49, 44, 49, 41, 41 >>

\* C8: a serialize_value with no pending key panics and inserts nothing; with
\* a pending key k it takes the key and, when the value encodes, inserts
\* exactly the pair (k, to_string of the value); a key becomes pending only
\* through serialize_key, and a pair enters the map only under the key that
\* was pending.
C8_KeyValueProtocol ==
  /\ [][op' = "serialize_value" =>
          IF key = None
          THEN pc' = "panic" /\ map' = map /\ fed' = fed /\ key' = None
          ELSE /\ pc' # "panic"
               /\ key' = None
               /\ to_string(arg').err = "Ok" =>
                    /\ pc' = "map"
                    /\ Range(map') =
                         { q \in Range(map) : q[1] # key[1] }
                           \cup { << key[1], to_string(arg').buf >> }
                    /\ Len(map') = Cardinality(Range(map'))
               /\ to_string(arg').err # "Ok" => map' = map /\ pc' = "err"]_vars
  /\ [][(key' # key /\ key' # None) =>
          op' = "serialize_key" /\ key' = Some(KeySerialize(<< >>, arg').buf)]_vars
  /\ [][mode' = "map" =>
          { q[1] : q \in Range(map') } \subseteq
            { q[1] : q \in Range(map) } \cup { key[i] : i \in DOMAIN key }]_vars

\* A pair was inserted under its pending key, and the next serialize_value,
\* with no key pending, panicked.
C8_Witness ==
  /\ pc = "panic" /\ op = "serialize_value"
  /\ Len(fed) = 1 /\ Len(map) = 1
  /\ key = None

\* C9: no step shortens or rewrites the buffer; serialize_map,
\* serialize_struct and every key, value and field call leave it as it is,
\* and only end() of the MapSerializer appends to it.
C9_AppendOnly ==
  /\ [][IsPrefix(buf, buf')]_vars
  /\ [][op' \in {"serialize_map", "serialize_struct", "serialize_key",
                 "serialize_value", "serialize_field"} => buf' = buf]_vars
  /\ [][(pc = "map" /\ op' = "end") =>
          IsPrefix(buf \o << 40 >>, buf') /\ Len(buf') >= Len(buf) + 2]_vars

\* A struct variant with two fields was ended: the object follows the
\* framing written when it was opened.
C9_Witness ==
  /\ pc = "done" /\ mode = "struct_variant" /\ op = "end"
  /\ Len(map) = 2
  /\ IsPrefix(<< 40, 86, 58, 40 >>, buf)

\* What escaped_str appended to the string it was called on.
Token == SubSeq(s, Len(into) + 1, Len(s))

\* A reader's scan of a quoted token from position i: the position of the
\* first quote that is not the byte after an escaping !, or 0 when there is
\* none.
RECURSIVE FirstUnescapedQuote(_, _)
FirstUnescapedQuote(t, i) ==
  IF i > Len(t) THEN 0
  ELSE IF t[i] = 33 THEN FirstUnescapedQuote(t, i + 2)
  ELSE IF t[i] = 39 THEN i
  ELSE FirstUnescapedQuote(t, i + 1)

\* Each !x of a quoted body replaced by x.
RECURSIVE Unescape(_)
Unescape(b) ==
  IF Len(b) = 0 THEN << >>
  ELSE IF b[1] = 33 /\ Len(b) >= 2 THEN << b[2] >> \o Unescape(SubSeq(b, 3, Len(b)))
  ELSE << b[1] >> \o Unescape(Tail(b))

\* The reference decoder: a token that opens with a quote is read up to the
\* first unescaped quote and unescaped; any other token is taken verbatim.
Decode(t) ==
  IF Len(t) > 0 /\ t[1] = 39
  THEN Unescape(SubSeq(t, 2, FirstUnescapedQuote(t, 2) - 1))
  ELSE t

\* In a quoted body every ! escapes the byte after it and no quote stands
\* unescaped.
RECURSIVE BodyEscaped(_, _)
BodyEscaped(b, i) ==
  IF i > Len(b) THEN TRUE
  ELSE IF b[i] = 33 THEN i + 1 <= Len(b) /\ BodyEscaped(b, i + 2)
  ELSE b[i] # 39 /\ BodyEscaped(b, i + 1)

\* The bytes that open a quoted string, a ! token, an object or a number.
ReservedStart == { 39, 33, 40, 45 } \cup (48..57)

\* Texts a token is compared with for injectivity: every text of at most two
\* bytes over Alphabet, every one-byte ASCII text, and the token itself and
\* its inside read as texts.
Rivals ==
  BoundedSeq(Alphabet, 2) \cup { << b >> : b \in 0..127 }
    \cup { Token, SubSeq(Token, 2, Len(Token) - 1) }

\* C11: what escaped_str appends for a text t is never empty and the
\* reference decoder reads it back as exactly t; a quoted token has every !
\* and quote of its body behind an escaping !, so its closing quote is the
\* first unescaped quote after the opening one; a bare token does not start
\* with a quote, !, (, a digit or -; and no other text has the same token.
C11_Reversible ==
  escPc = "ret" =>
    /\ IsPrefix(into, s)
    /\ Len(Token) > 0
    /\ Decode(Token) = value
    /\ Token[1] = 39 =>
         /\ Len(Token) >= 2
         /\ FirstUnescapedQuote(Token, 2) = Len(Token)
         /\ BodyEscaped(SubSeq(Token, 2, Len(Token) - 1), 1)
    /\ Token[1] # 39 => Token = value /\ Token[1] \notin ReservedStart
    /\ \A t \in Rivals : escaped_str(<< >>, t) = Token => t = value

\* escaped_str has appended '!'!!' for the text of a quote and a !, and the
\* decoder reads the two bytes back.
C11_Witness ==
  /\ escPc = "ret"
  /\ value = << 39, 33 >>
  /\ into = << 40, 97, 58 >>
  /\ Token = << 39, 33, 39, 33, 33, 39 >>
  /\ Decode(Token) = << 39, 33 >>

====
